---------------------------- MODULE Spec2Model ----------------------------
(***************************************************************************)
(* Model of the readingbricks request handlers (views.py, app_runner.py)   *)
(* and of the boolean tag-query engine they call.                          *)
(*                                                                         *)
(* Strings are sequences of one-character strings, so that interpolation   *)
(* of a tag into an SQL statement, tokenizing and validation are computed  *)
(* character by character.                                                 *)
(***************************************************************************)
EXTENDS Integers, Sequences, FiniteSets

(***************************************************************************)
(* Characters and strings                                                  *)
(***************************************************************************)
Letters ==
    { "a", "b", "c", "d", "e", "f", "g", "h", "i", "j", "k", "l", "m",
      "n", "o", "p", "q", "r", "s", "t", "u", "v", "w", "x", "y", "z",
      "A", "B", "C", "D", "E", "F", "G", "H", "I", "J", "K", "L", "M",
      "N", "O", "P", "Q", "R", "S", "T", "U", "V", "W", "X", "Y", "Z" }

Digits == { "0", "1", "2", "3", "4", "5", "6", "7", "8", "9" }

\* The safe character class of tag names: letters, digits, underscore.
TagNameChars == Letters \cup Digits \cup { "_" }

Whitespace == { " " }

\* A tag name is valid iff it is non-empty and every character is in the
\* safe class.
IsValidTagName(tag) ==
    /\ Len(tag) > 0
    /\ \A i \in 1..Len(tag) : tag[i] \in TagNameChars

SetMin(S) == CHOOSE x \in S : \A y \in S : x <= y

\* s without its leading whitespace.
LStrip(s) ==
    LET solid == { i \in 1..Len(s) : s[i] \notin Whitespace }
    IN  IF solid = {} THEN << >> ELSE SubSeq(s, SetMin(solid), Len(s))

\* s without its trailing whitespace.
RStrip(s) ==
    LET solid == { i \in 1..Len(s) : s[i] \notin Whitespace }
    IN  IF solid = {} THEN << >>
        ELSE SubSeq(s, 1, CHOOSE i \in solid : \A j \in solid : j <= i)

Strip(s) == RStrip(LStrip(s))

StartsWith(s, prefix) ==
    /\ Len(prefix) <= Len(s)
    /\ SubSeq(s, 1, Len(prefix)) = prefix

\* All sequences over alphabet of length lo..hi.
SeqsOfLen(alphabet, lo, hi) ==
    UNION { [1..n -> alphabet] : n \in lo..hi }

(***************************************************************************)
(* Tokenizer (spec 4.1)                                                    *)
(***************************************************************************)
KwAND == << "A", "N", "D" >>
KwOR  == << "O", "R" >>
KwNOT == << "N", "O", "T" >>

Token(type, value) == [type |-> type, value |-> value]

TokAnd    == Token("And", << >>)
TokOr     == Token("Or", << >>)
TokNot    == Token("Not", << >>)
TokLParen == Token("LParen", << >>)
TokRParen == Token("RParen", << >>)
TagLiteral(name) == Token("TagLiteral", name)

\* Index of the last character of the maximal run of tag-name characters
\* that starts at i.
RunEnd(raw, i) ==
    LET stops == { k \in i..Len(raw) : raw[k] \notin TagNameChars }
    IN  IF stops = {} THEN Len(raw) ELSE SetMin(stops) - 1

\* A maximal run equal to a keyword is that operator, any other run is a
\* TagLiteral; keywords are case-sensitive.
WordToken(word) ==
    IF word = KwAND THEN TokAnd
    ELSE IF word = KwOR THEN TokOr
    ELSE IF word = KwNOT THEN TokNot
    ELSE TagLiteral(word)

LexOk(tokens) == [error |-> "none", tokens |-> tokens, position |-> 0]
LexError(position) ==
    [error |-> "LexError", tokens |-> << >>, position |-> position]

RECURSIVE TokenizeFrom(_, _)
TokenizeFrom(raw, i) ==
    IF i > Len(raw) THEN LexOk(<< >>)
    ELSE IF raw[i] \in Whitespace THEN TokenizeFrom(raw, i + 1)
    ELSE IF raw[i] \in { "(", ")" } THEN
        LET rest == TokenizeFrom(raw, i + 1)
            tok  == IF raw[i] = "(" THEN TokLParen ELSE TokRParen
        IN  IF rest.error # "none" THEN rest
            ELSE LexOk(<< tok >> \o rest.tokens)
    ELSE IF raw[i] \in TagNameChars THEN
        LET j    == RunEnd(raw, i)
            rest == TokenizeFrom(raw, j + 1)
        IN  IF rest.error # "none" THEN rest
            ELSE LexOk(<< WordToken(SubSeq(raw, i, j)) >> \o rest.tokens)
    ELSE LexError(i)

tokenize(raw) == TokenizeFrom(raw, 1)

(***************************************************************************)
(* Parser (spec 4.2)                                                       *)
(*   Expr   := Term (OR Term)*                                             *)
(*   Term   := Factor (AND Factor)*                                        *)
(*   Factor := NOT Factor | LPAREN Expr RPAREN | TagLiteral                *)
(***************************************************************************)
NoAst == [kind |-> "none"]
Leaf(tag) == [kind |-> "Leaf", tag |-> tag]
Not(child) == [kind |-> "Not", child |-> child]
And(left, right) == [kind |-> "And", left |-> left, right |-> right]
Or(left, right) == [kind |-> "Or", left |-> left, right |-> right]

\* pos is the index of the first token not consumed.
ParseOk(ast, pos) == [error |-> "none", ast |-> ast, pos |-> pos]
ParseError(pos) == [error |-> "ParseError", ast |-> NoAst, pos |-> pos]

TypeAt(tokens, i) == IF i <= Len(tokens) THEN tokens[i].type ELSE "end"

RECURSIVE ParseExpr(_, _), ParseExprRest(_, _, _), ParseTerm(_, _),
          ParseTermRest(_, _, _), ParseFactor(_, _),
          ParseExprRestFlat(_, _, _)

ParseFactor(tokens, i) ==
    CASE TypeAt(tokens, i) = "Not" ->
            LET r == ParseFactor(tokens, i + 1)
            IN  IF r.error # "none" THEN r ELSE ParseOk(Not(r.ast), r.pos)
      [] TypeAt(tokens, i) = "LParen" ->
            LET r == ParseExpr(tokens, i + 1)
            IN  IF r.error # "none" THEN r
                ELSE IF TypeAt(tokens, r.pos) = "RParen"
                     THEN ParseOk(r.ast, r.pos + 1)
                     ELSE ParseError(r.pos)
      [] TypeAt(tokens, i) = "TagLiteral" ->
            ParseOk(Leaf(tokens[i].value), i + 1)
      [] OTHER -> ParseError(i)

ParseTermRest(tokens, left, i) ==
    IF TypeAt(tokens, i) = "And" THEN
        LET r == ParseFactor(tokens, i + 1)
        IN  IF r.error # "none" THEN r
            ELSE ParseTermRest(tokens, And(left, r.ast), r.pos)
    ELSE ParseOk(left, i)

ParseTerm(tokens, i) ==
    LET r == ParseFactor(tokens, i)
    IN  IF r.error # "none" THEN r ELSE ParseTermRest(tokens, r.ast, r.pos)

\* AND and OR taken at one level, left to right.
ParseExprRestFlat(tokens, left, i) ==
    IF TypeAt(tokens, i) \in { "Or", "And" } THEN
        LET r == ParseFactor(tokens, i + 1)
        IN  IF r.error # "none" THEN r
            ELSE ParseExprRestFlat(tokens,
                                   IF TypeAt(tokens, i) = "Or"
                                   THEN Or(left, r.ast) ELSE And(left, r.ast),
                                   r.pos)
    ELSE ParseOk(left, i)

ParseExprRest(tokens, left, i) ==
    IF TypeAt(tokens, i) = "Or" THEN
        LET r == ParseTerm(tokens, i + 1)
        IN  IF r.error # "none" THEN r
            ELSE ParseExprRest(tokens, Or(left, r.ast), r.pos)
    ELSE ParseOk(left, i)

ParseExpr(tokens, i) ==
    LET r == ParseTerm(tokens, i)
    IN  IF r.error # "none" THEN r ELSE ParseExprRest(tokens, r.ast, r.pos)

\* Every token must be consumed; empty input is a ParseError.
parse(tokens) ==
    LET r == ParseExpr(tokens, 1)
    IN  IF r.error # "none" THEN r
        ELSE IF r.pos <= Len(tokens) THEN ParseError(r.pos)
        ELSE r

(***************************************************************************)
(* Index Adapter (spec 4.3).  The index is a function from the names of    *)
(* the existing per-tag relations to their sets of document ids.           *)
(***************************************************************************)
LookupResult(error, value) == [error |-> error, value |-> value]

\* The tag name is validated before it addresses a relation.
lookup(tag, index) ==
    IF ~IsValidTagName(tag) THEN LookupResult("InvalidTagName", {})
    ELSE IF tag \notin DOMAIN index THEN LookupResult("UnknownTag", {})
    ELSE LookupResult("none", index[tag])

\* No universe is supplied.
universe_missing(index) == {}

\* The document ids with at least one known tag assignment.
universe(index) == UNION { index[t] : t \in DOMAIN index }

(***************************************************************************)
(* Evaluator (spec 4.4): post-order; an UnknownTag leaf is the empty set.  *)
(***************************************************************************)
EvalOk(value) == [error |-> "none", value |-> value]
EvalError(error) == [error |-> error, value |-> {}]

RECURSIVE evaluate(_, _)
evaluate(ast, index) ==
    CASE ast.kind = "Leaf" ->
            LET r == lookup(ast.tag, index)
            IN  IF r.error = "InvalidTagName" THEN EvalError(r.error)
                ELSE EvalOk(r.value)
      [] ast.kind = "Not" ->
            LET c == evaluate(ast.child, index)
            IN  IF c.error # "none" THEN c
                ELSE EvalOk(universe(index) \ c.value)
      [] ast.kind = "And" ->
            LET l == evaluate(ast.left, index)
                r == evaluate(ast.right, index)
            IN  IF l.error # "none" THEN l
                ELSE IF r.error # "none" THEN r
                ELSE EvalOk(l.value \cap r.value)
      [] ast.kind = "Or" ->
            LET l == evaluate(ast.left, index)
                r == evaluate(ast.right, index)
            IN  IF l.error # "none" THEN l
                ELSE IF r.error # "none" THEN r
                ELSE EvalOk(l.value \cup r.value)

RECURSIVE LeafTags(_)
\* The tag names at the leaves of an AST.
LeafTags(ast) ==
    CASE ast.kind = "Leaf" -> { ast.tag }
      [] ast.kind = "Not" -> LeafTags(ast.child)
      [] ast.kind \in { "And", "Or" } ->
            LeafTags(ast.left) \cup LeafTags(ast.right)
      [] OTHER -> {}

\* The tag names an evaluation forwards to storage: those that passed
\* validation.
StorageLookups(ast) == { t \in LeafTags(ast) : IsValidTagName(t) }

(***************************************************************************)
(* Query Facade (spec 4.5): tokenizer -> parser -> evaluator, stopping at  *)
(* the first failure; no value accompanies a failure.                      *)
(***************************************************************************)
RunResult(status, value, unknown_top, lookups) ==
    [status |-> status, value |-> value, unknown_top |-> unknown_top,
     lookups |-> lookups]

\* The evaluator's answer for the parsed query.
RunEvaluated(top, ev, index) ==
    IF ev.error # "none" THEN RunResult(ev.error, {}, FALSE, {})
    ELSE RunResult("ok", ev.value,
                   top.kind = "Leaf" /\ top.tag \notin DOMAIN index,
                   StorageLookups(top))

\* The parser's answer, evaluated unless it is a failure.
RunParsed(parsed, index) ==
    IF parsed.error # "none" THEN RunResult(parsed.error, {}, FALSE, {})
    ELSE RunEvaluated(parsed.ast, evaluate(parsed.ast, index), index)

\* The tokenizer's answer, parsed unless it is a failure.
RunLexed(lexed, index) ==
    IF lexed.error # "none" THEN RunResult(lexed.error, {}, FALSE, {})
    ELSE RunParsed(parse(lexed.tokens), index)

run(raw, index) == RunLexed(tokenize(raw), index)

(***************************************************************************)
(* sqlite3 as the handlers use it.  A database is a function from the      *)
(* names of its relations to their sets of rows (note ids).  The storage   *)
(* is taken to be reachable: the database file is local.                   *)
(***************************************************************************)
StrSELECT == << "S", "E", "L", "E", "C", "T" >>
StrFROM   == << "F", "R", "O", "M" >>
StrDROP   == << "D", "R", "O", "P" >>
StrTABLE  == << "T", "A", "B", "L", "E" >>
note_id    == << "n", "o", "t", "e", "_", "i", "d" >>
note_title == << "n", "o", "t", "e", "_", "t", "i", "t", "l", "e" >>

SqlKeywords == { StrSELECT, StrFROM, StrDROP, StrTABLE, KwAND, KwOR, KwNOT }

\* f"SELECT {column} FROM {tag}": the tag is interpolated as it came.
SelectFrom(column, tag) ==
    StrSELECT \o << " " >> \o column \o << " " >> \o StrFROM \o << " " >> \o tag

RECURSIVE SplitWords(_)
\* The maximal runs of non-whitespace characters of s, in order.
SplitWords(s) ==
    LET t == LStrip(s)
    IN  IF t = << >> THEN << >>
        ELSE LET blanks == { i \in 1..Len(t) : t[i] \in Whitespace }
                 stop   == IF blanks = {} THEN Len(t) + 1 ELSE SetMin(blanks)
             IN  << SubSeq(t, 1, stop - 1) >>
                     \o SplitWords(SubSeq(t, stop, Len(t)))

RECURSIVE SplitStatements(_)
\* The pieces of s between its semicolons, in order.
SplitStatements(s) ==
    LET semis == { i \in 1..Len(s) : s[i] = ";" }
    IN  IF semis = {} THEN << s >>
        ELSE << SubSeq(s, 1, SetMin(semis) - 1) >>
                 \o SplitStatements(SubSeq(s, SetMin(semis) + 1, Len(s)))

IsSqlIdentifier(word) ==
    /\ IsValidTagName(word)
    /\ word[1] \notin Digits
    /\ word \notin SqlKeywords

\* The relation a FROM clause names: "t" or "t alias"; << >> when the clause
\* is not of that form (a syntax error).
FromTable(clause) ==
    LET words == SplitWords(clause)
    IN  IF /\ Len(words) \in { 1, 2 }
           /\ \A i \in 1..Len(words) : IsSqlIdentifier(words[i])
        THEN words[1]
        ELSE << >>

DropTable(db, table) == [t \in (DOMAIN db) \ { table } |-> db[t]]

SqlResult(exc, rows, db) == [exc |-> exc, rows |-> rows, db |-> db]

\* The first statement of a "SELECT column FROM ..." text is prepared: a
\* syntax error or a missing relation raises OperationalError.
PrepareSelect(sql, db) ==
    LET columns == { c \in { note_id, note_title } :
                       StartsWith(sql, SelectFrom(c, << >>)) }
        column  == CHOOSE c \in columns : TRUE
        rest    == SubSeq(sql, Len(SelectFrom(column, << >>)) + 1, Len(sql))
        table   == FromTable(Head(SplitStatements(rest)))
    IN  IF columns = {} \/ table = << >> \/ table \notin DOMAIN db
        THEN SqlResult("OperationalError", {}, db)
        ELSE SqlResult("none", db[table], db)

\* What follows the first semicolon of the text.
RemainingSql(sql) ==
    LET semis == { i \in 1..Len(sql) : sql[i] = ";" }
    IN  IF semis = {} THEN << >>
        ELSE SubSeq(sql, SetMin(semis) + 1, Len(sql))

RECURSIVE RunStatements(_, _)
\* Every statement of the sequence run in order; DROP TABLE t removes t.
RunStatements(stmts, db) ==
    IF stmts = << >> THEN db
    ELSE LET words == SplitWords(Head(stmts))
             drops == /\ Len(words) = 3
                      /\ words[1] = StrDROP
                      /\ words[2] = StrTABLE
                      /\ words[3] \in DOMAIN db
         IN  RunStatements(Tail(stmts),
                           IF drops THEN DropTable(db, words[3]) ELSE db)

\* A cursor that runs every statement of the text (executescript).
sqlite3_executescript(sql, db) ==
    LET first == PrepareSelect(sql, db)
    IN  IF first.exc # "none" THEN first
        ELSE SqlResult("none", first.rows,
                       RunStatements(SplitStatements(RemainingSql(sql)), db))

\* cur.execute(sql); cur.fetchall().  Only one statement may be executed:
\* text after the first statement, other than whitespace, raises
\* ProgrammingError (sqlite3.Warning before Python 3.12) and nothing runs.
\* A SELECT leaves the database as it is.
sqlite3_execute(sql, db) ==
    LET first == PrepareSelect(sql, db)
    IN  IF first.exc # "none" THEN first
        ELSE IF Strip(RemainingSql(sql)) # << >>
             THEN SqlResult("ProgrammingError", {}, db)
             ELSE first

\* One module-level connection handed to every caller.
sqlite3_connect_shared(open) == 1

\* sqlite3.connect(path_to_db): a connection of the caller's own, distinct
\* from every connection in use.  0 is "no connection".
sqlite3_connect(open) ==
    SetMin({ h \in 1..(Cardinality(open) + 1) : h \notin open })

(***************************************************************************)
(* Rendering                                                               *)
(***************************************************************************)
DocIds == { "n1", "n2" }

\* Every note the index names has its Markdown file.
MarkdownNotes == DocIds

None == "None"

\* The rendered note, or None if the note's file does not exist.
convert_note_from_markdown_to_html(id) ==
    IF id \in MarkdownNotes THEN id ELSE None

\* What a handler hands back: the template rendered, the HTTP status, the
\* notes whose content the page holds, the exception that escaped the
\* handler, the arguments of its calls of page_for_list_of_ids, the query
\* it passed to the engine and the engine's status.
Outcome(page, code, content, exc, listed) ==
    [page |-> page, code |-> code, content |-> content, exc |-> exc,
     listed |-> listed, engine_query |-> << >>, engine_status |-> "none"]

NoOutcome == Outcome("none", 0, {}, "none", << >>)

\* reduce(lambda x, y: x + y, notes_content) has no initial value: it raises
\* TypeError on an empty list, and on None + Markup.
page_for_list_of_ids(note_ids) ==
    LET notes_content == { convert_note_from_markdown_to_html(n) : n \in note_ids }
    IN  IF note_ids = {} \/ (None \in notes_content /\ Cardinality(note_ids) > 1)
        THEN Outcome("none", 500, {}, "TypeError", << note_ids >>)
        ELSE Outcome("regular_page.html", 200, notes_content \ { None },
                     "none", << note_ids >>)

(***************************************************************************)
(* /tags/<tag>                                                             *)
(***************************************************************************)
\* The handler with no except clause.
page_for_tag_uncaught(r, not_found_code) ==
    IF r.exc # "none" THEN Outcome("none", 500, {}, r.exc, << >>)
    ELSE page_for_list_of_ids(r.rows)

\* views.page_for_tag / app_runner.page_for_tag after the cursor's answer r:
\* sqlite3.OperationalError gives the 404 page, any other exception escapes.
\* app_runner.py has the loop and the reduce of page_for_list_of_ids inline.
page_for_tag_result(r, not_found_code) ==
    IF r.exc = "OperationalError"
    THEN Outcome("404.html", not_found_code, {}, "none", << >>)
    ELSE IF r.exc # "none" THEN Outcome("none", 500, {}, r.exc, << >>)
    ELSE page_for_list_of_ids(r.rows)

(***************************************************************************)
(* /query                                                                  *)
(***************************************************************************)
\* "n_s AND (p_z OR b_m)": the fixed default query (its three tag names
\* transliterated to their initials).
default ==
    << "n", "_", "s", " " >> \o KwAND \o << " ", "(", "p", "_", "z", " " >>
        \o KwOR \o << " ", "b", "_", "m", ")" >>

\* No default is applied.
user_query_as_given(form_query) == form_query

\* user_query = user_query or default
user_query_or_default(form_query) ==
    IF form_query = << >> THEN default ELSE form_query

\* LogicalQueriesHandler.find_all_relevant_notes: the facade's run, whose
\* failure reaches the caller as sqlite3.OperationalError.
RaiseOnFailure(r) ==
    [exc |-> IF r.status = "ok" THEN "none" ELSE "OperationalError",
     note_ids |-> r.value, status |-> r.status, lookups |-> r.lookups]

find_all_relevant_notes(user_query, db) == RaiseOnFailure(run(user_query, db))

WithEngine(outcome, user_query, r) ==
    [outcome EXCEPT !.engine_query = << user_query >>,
                    !.engine_status = r.status]

\* The handler taking an empty result for a failure.
page_for_query_empty_is_invalid(user_query, r) ==
    WithEngine(IF r.exc = "OperationalError" \/ r.note_ids = {}
               THEN Outcome("invalid_query.html", 200, {}, "none", << >>)
               ELSE page_for_list_of_ids(r.note_ids),
               user_query, r)

\* The handler taking a failure for an empty result.
page_for_query_failure_is_empty(user_query, r) ==
    WithEngine(IF r.exc = "OperationalError" \/ r.note_ids = {}
               THEN Outcome("empty_result.html", 200, {}, "none", << >>)
               ELSE page_for_list_of_ids(r.note_ids),
               user_query, r)

\* page_for_query after the engine's answer r.
page_for_query_result(user_query, r) ==
    WithEngine(IF r.exc = "OperationalError"
               THEN Outcome("invalid_query.html", 200, {}, "none", << >>)
               ELSE IF Cardinality(r.note_ids) > 0
                    THEN page_for_list_of_ids(r.note_ids)
                    ELSE Outcome("empty_result.html", 200, {}, "none", << >>),
               user_query, r)

(***************************************************************************)
(* Inputs of the model                                                     *)
(***************************************************************************)
MaxTagLen == 2
MaxLexemes == 3
NumWorkers == 2

TagA == << "a" >>
TagB == << "b" >>
TagC == << "c" >>

\* The relations the index may hold, and every index over them.  A tag is
\* attached to zero or more documents.
IndexTags == { TagA, TagB }
Storages == UNION { [D -> SUBSET DocIds] : D \in SUBSET IndexTags }

\* "a; DROP TABLE b"
InjectionTag ==
    << "a", ";", " " >> \o StrDROP \o << " " >> \o StrTABLE \o << " ", "b" >>

\* The <tag> path segment is any non-empty text.
TagAlphabet == { "a", "b", "1", ";", " " }
TagInputs == SeqsOfLen(TagAlphabet, 1, MaxTagLen) \cup { InjectionTag }

RECURSIVE JoinWords(_)
\* The words joined by single spaces.
JoinWords(words) ==
    IF words = << >> THEN << >>
    ELSE IF Len(words) = 1 THEN words[1]
    ELSE words[1] \o << " " >> \o JoinWords(Tail(words))

QueryTags == { TagA, TagB, TagC }
Lexemes == { TagA, TagB, KwAND, KwOR, KwNOT, << "(" >>, << ")" >>, << ";" >> }

\* "x OR y AND z", "x OR (y AND z)", "(x OR y) AND z"
FlatQuery(x, y, z) == JoinWords(<< x, KwOR, y, KwAND, z >>)
RightGroupedQuery(x, y, z) ==
    JoinWords(<< x, KwOR, << "(" >> \o y, KwAND, z \o << ")" >> >>)
LeftGroupedQuery(x, y, z) ==
    JoinWords(<< << "(" >> \o x, KwOR, y \o << ")" >>, KwAND, z >>)

\* "x AND y"
AndQuery(x, y) == JoinWords(<< x, KwAND, y >>)

SampleQueries ==
    { InjectionTag, JoinWords(<< TagA, KwAND, KwNOT, TagB >>),
      << "a" >> \o KwAND \o << " ", "b" >> }
      \cup { AndQuery(x, y) : x, y \in QueryTags }
      \cup UNION { { FlatQuery(x, y, z), RightGroupedQuery(x, y, z),
                     LeftGroupedQuery(x, y, z) } : x, y, z \in QueryTags }

\* The form's query is any text, the empty one included.
QueryInputs ==
    { JoinWords(ws) : ws \in SeqsOfLen(Lexemes, 0, MaxLexemes) }
        \cup SampleQueries

(***************************************************************************)
(* State                                                                   *)
(***************************************************************************)
VARIABLES
    storage,     \* the index: relation name -> set of note ids
    pc,          \* per request worker: "idle", "connected", "querying", "done"
    handler,     \* per worker: the handler serving its request
    input,       \* per worker: the tag of the path, or the form's query
    user_query,  \* per worker: the query after the default is applied
    conn,        \* per worker: its open connection, 0 if none
    queried,     \* per worker: the statement texts its request sent to storage
    outcome,     \* per worker: what its handler handed back
    eng          \* one run of the engine, stage by stage

vars == << storage, pc, handler, input, user_query, conn, queried, outcome, eng >>

ViewsTag == "views.page_for_tag"
RunnerTag == "app_runner.page_for_tag"
ViewsQuery == "views.page_for_query"

\* views.py selects note_id and answers an unknown tag with the 404 template
\* (status 200); app_runner.py selects note_title and answers with
\* page_not_found, status 404.
ColumnOf(h) == IF h = RunnerTag THEN note_title ELSE note_id
NotFoundCode(h) == IF h = RunnerTag THEN 404 ELSE 200

OpenConnections == { conn[w] : w \in DOMAIN conn } \ { 0 }

EngineIdle ==
    [stage |-> "idle", raw |-> << >>, tokens |-> << >>, ast |-> NoAst,
     pos |-> 0, value |-> {}, error |-> "none"]

InitWorkers(W) ==
    /\ pc = [w \in W |-> "idle"]
    /\ handler = [w \in W |-> "none"]
    /\ input = [w \in W |-> << >>]
    /\ user_query = [w \in W |-> << >>]
    /\ conn = [w \in W |-> 0]
    /\ queried = [w \in W |-> {}]
    /\ outcome = [w \in W |-> NoOutcome]

\* A request for /tags/<tag>, tag any of tags, arrives and the handler h
\* connects.
BeginTag(w, h, tags) ==
    /\ pc[w] = "idle"
    /\ \E tag \in tags : input' = [input EXCEPT ![w] = tag]
    /\ pc' = [pc EXCEPT ![w] = "connected"]
    /\ handler' = [handler EXCEPT ![w] = h]
    /\ user_query' = [user_query EXCEPT ![w] = << >>]
    /\ conn' = [conn EXCEPT ![w] = sqlite3_connect(OpenConnections)]
    /\ UNCHANGED << storage, queried, outcome, eng >>

\* The handler executes its SELECT, renders and returns; its connection is
\* closed (views.py) or dropped with the frame (app_runner.py).
ExecTag(w) ==
    /\ pc[w] = "connected"
    /\ \E sql \in { SelectFrom(ColumnOf(handler[w]), input[w]) } :
       \E r \in { sqlite3_execute(sql, storage) } :
           /\ queried' = [queried EXCEPT ![w] = { sql }]
           /\ storage' = r.db
           /\ outcome' = [outcome EXCEPT ![w] =
                            page_for_tag_result(r, NotFoundCode(handler[w]))]
    /\ conn' = [conn EXCEPT ![w] = 0]
    /\ pc' = [pc EXCEPT ![w] = "done"]
    /\ UNCHANGED << handler, input, user_query, eng >>

\* A POST to /query, its form value any of queries, arrives: the default
\* replaces an empty form value and a LogicalQueriesHandler of the request's
\* own is built on path_to_db.
BeginQuery(w, queries) ==
    /\ pc[w] = "idle"
    /\ \E form_query \in queries :
           /\ input' = [input EXCEPT ![w] = form_query]
           /\ user_query' = [user_query EXCEPT ![w] =
                               user_query_or_default(form_query)]
    /\ pc' = [pc EXCEPT ![w] = "querying"]
    /\ handler' = [handler EXCEPT ![w] = ViewsQuery]
    /\ conn' = [conn EXCEPT ![w] = sqlite3_connect(OpenConnections)]
    /\ UNCHANGED << storage, queried, outcome, eng >>

\* The engine answers and the handler renders and returns.
ExecQuery(w) ==
    /\ pc[w] = "querying"
    /\ \E r \in { find_all_relevant_notes(user_query[w], storage) } :
           /\ queried' = [queried EXCEPT ![w] =
                            { SelectFrom(note_id, t) : t \in r.lookups }]
           /\ outcome' = [outcome EXCEPT ![w] =
                            page_for_query_result(user_query[w], r)]
    /\ conn' = [conn EXCEPT ![w] = 0]
    /\ pc' = [pc EXCEPT ![w] = "done"]
    /\ UNCHANGED << storage, handler, input, user_query, eng >>

\* The response is sent: nothing of the request outlives it.
Respond(w) ==
    /\ pc[w] = "done"
    /\ pc' = [pc EXCEPT ![w] = "idle"]
    /\ handler' = [handler EXCEPT ![w] = "none"]
    /\ input' = [input EXCEPT ![w] = << >>]
    /\ user_query' = [user_query EXCEPT ![w] = << >>]
    /\ queried' = [queried EXCEPT ![w] = {}]
    /\ outcome' = [outcome EXCEPT ![w] = NoOutcome]
    /\ UNCHANGED << storage, conn, eng >>

(***************************************************************************)
(* Spec: one worker serving requests one after another, any inputs.        *)
(***************************************************************************)
OneWorker == { 1 }

Init ==
    /\ storage \in Storages
    /\ InitWorkers(OneWorker)
    /\ eng = EngineIdle

ViewsTagRequest == \E w \in OneWorker : BeginTag(w, ViewsTag, TagInputs)
RunnerTagRequest == \E w \in OneWorker : BeginTag(w, RunnerTag, TagInputs)
QueryRequest == \E w \in OneWorker : BeginQuery(w, QueryInputs)
TagResponse == \E w \in OneWorker : ExecTag(w)
QueryResponse == \E w \in OneWorker : ExecQuery(w)
ResponseSent == \E w \in OneWorker : Respond(w)

Next ==
    \/ ViewsTagRequest
    \/ RunnerTagRequest
    \/ QueryRequest
    \/ TagResponse
    \/ QueryResponse
    \/ ResponseSent

Spec == Init /\ [][Next]_vars

(***************************************************************************)
(* SpecConc: NumWorkers workers serving requests concurrently.             *)
(***************************************************************************)
Workers == 1..NumWorkers
ConcTags == { TagA, << ";" >> }
ConcQueries == { << >>, TagA }

InitConc ==
    /\ storage \in Storages
    /\ InitWorkers(Workers)
    /\ eng = EngineIdle

ConcViewsTagRequest == \E w \in Workers : BeginTag(w, ViewsTag, ConcTags)
ConcRunnerTagRequest == \E w \in Workers : BeginTag(w, RunnerTag, ConcTags)
ConcQueryRequest == \E w \in Workers : BeginQuery(w, ConcQueries)
ConcTagResponse == \E w \in Workers : ExecTag(w)
ConcQueryResponse == \E w \in Workers : ExecQuery(w)
ConcResponseSent == \E w \in Workers : Respond(w)

NextConc ==
    \/ ConcViewsTagRequest
    \/ ConcRunnerTagRequest
    \/ ConcQueryRequest
    \/ ConcTagResponse
    \/ ConcQueryResponse
    \/ ConcResponseSent

SpecConc == InitConc /\ [][NextConc]_vars

(***************************************************************************)
(* SpecEngine: one run of the facade on any query and any index, stage by  *)
(* stage.                                                                  *)
(***************************************************************************)
InitEngine ==
    /\ storage \in Storages
    /\ InitWorkers(OneWorker)
    /\ \E raw \in QueryInputs : eng = [EngineIdle EXCEPT !.stage = "raw", !.raw = raw]

Tokenize ==
    /\ eng.stage = "raw"
    /\ LET r == tokenize(eng.raw)
       IN  eng' = IF r.error # "none"
                  THEN [eng EXCEPT !.stage = "failed", !.error = r.error,
                                   !.pos = r.position]
                  ELSE [eng EXCEPT !.stage = "tokenized", !.tokens = r.tokens]
    /\ UNCHANGED << storage, pc, handler, input, user_query, conn, queried, outcome >>

Parse ==
    /\ eng.stage = "tokenized"
    /\ LET r == parse(eng.tokens)
       IN  eng' = IF r.error # "none"
                  THEN [eng EXCEPT !.stage = "failed", !.error = r.error,
                                   !.pos = r.pos]
                  ELSE [eng EXCEPT !.stage = "parsed", !.ast = r.ast,
                                   !.pos = r.pos]
    /\ UNCHANGED << storage, pc, handler, input, user_query, conn, queried, outcome >>

Evaluate ==
    /\ eng.stage = "parsed"
    /\ LET r == evaluate(eng.ast, storage)
       IN  eng' = IF r.error # "none"
                  THEN [eng EXCEPT !.stage = "failed", !.error = r.error]
                  ELSE [eng EXCEPT !.stage = "evaluated", !.value = r.value]
    /\ UNCHANGED << storage, pc, handler, input, user_query, conn, queried, outcome >>

NextEngine ==
    \/ Tokenize
    \/ Parse
    \/ Evaluate

SpecEngine == InitEngine /\ [][NextEngine]_vars

(***************************************************************************)
(* Properties                                                              *)
(***************************************************************************)
\* The text a statement "SELECT column FROM ..." addresses a relation with.
AddressedName(sql) ==
    LET columns == { c \in { note_id, note_title } :
                       StartsWith(sql, SelectFrom(c, << >>)) }
        column  == CHOOSE c \in columns : TRUE
    IN  IF columns = {} THEN sql
        ELSE SubSeq(sql, Len(SelectFrom(column, << >>)) + 1, Len(sql))

DoneWith(w, h) == pc[w] = "done" /\ handler[w] = h

\* C1: no statement sent to storage addresses a relation by a name that
\* holds a character outside letters, digits and underscore: such a tag is
\* rejected before any storage query is issued.
C1_NoUnsafeTagInStorageQuery ==
    \A w \in DOMAIN queried :
        \A sql \in queried[w] : IsValidTagName(AddressedName(sql))

\* C2: the query "k AND u", k a tag with a non-empty relation and u a tag
\* with no relation, runs to success with the empty set, and page_for_query
\* answers it with the empty-result page, not the invalid-query page.
C2_UnknownTagDegradesToEmpty ==
    \A w \in DOMAIN pc : \A k, u \in QueryTags :
        ( /\ DoneWith(w, ViewsQuery)
          /\ input[w] = AndQuery(k, u)
          /\ k \in DOMAIN storage
          /\ u \notin DOMAIN storage )
        => ( storage[k] # {}
             => /\ run(input[w], storage).status = "ok"
                /\ run(input[w], storage).value = {}
                /\ outcome[w].engine_query = << AndQuery(k, u) >>
                /\ outcome[w].engine_status = "ok"
                /\ outcome[w].page = "empty_result.html"
                /\ outcome[w].content = {}
                /\ outcome[w].exc = "none" )

C2_Witness ==
    \E w \in DOMAIN pc :
        /\ DoneWith(w, ViewsQuery)
        /\ input[w] = AndQuery(TagA, TagB)
        /\ TagA \in DOMAIN storage
        /\ TagB \notin DOMAIN storage
        /\ storage[TagA] = DocIds
        /\ outcome[w].page = "empty_result.html"

C4_IndexReadOnly == [][storage' = storage]_vars

C4_Witness ==
    \E w \in DOMAIN pc :
        /\ pc[w] = "done"
        /\ handler[w] \in { ViewsTag, RunnerTag }
        /\ input[w] = InjectionTag
        /\ queried[w] # {}
        /\ outcome[w].exc = "ProgrammingError"
        /\ TagB \in DOMAIN storage

\* C5: no connection is in use by two requests at once: every request in
\* flight holds a connection of its own.
C5_OneConnectionPerRequest ==
    /\ \A w \in DOMAIN conn :
           (pc[w] \in { "connected", "querying" }) <=> (conn[w] # 0)
    /\ \A w1, w2 \in DOMAIN conn :
           (w1 # w2 /\ conn[w1] # 0) => conn[w1] # conn[w2]

C5_Witness ==
    \E w1, w2 \in DOMAIN conn :
        /\ w1 # w2
        /\ pc[w1] = "connected"
        /\ pc[w2] = "querying"
        /\ conn[w1] # 0
        /\ conn[w2] # 0

\* C6: a request for a well-formed tag with no relation in storage ends
\* normally with the not-found page: no note content, no exception.
C6_UnknownTagNotFound ==
    \A w \in DOMAIN pc :
        ( /\ pc[w] = "done"
          /\ handler[w] \in { ViewsTag, RunnerTag }
          /\ IsValidTagName(input[w])
          /\ input[w] \notin DOMAIN storage )
        => /\ outcome[w].page = "404.html"
           /\ outcome[w].content = {}
           /\ outcome[w].listed = << >>
           /\ outcome[w].exc = "none"

C6_Witness ==
    \E w \in DOMAIN pc :
        /\ DoneWith(w, ViewsTag)
        /\ input[w] = TagB
        /\ TagB \notin DOMAIN storage
        /\ TagA \in DOMAIN storage
        /\ outcome[w].page = "404.html"

\* C7: the engine has no default: run of the empty query is a ParseError
\* that evaluates nothing.  The caller applies the default before the
\* engine runs: page_for_query passes its default query, never the empty
\* string, to the engine.
C7_DefaultIsCallerSide ==
    /\ run(<< >>, storage) = RunResult("ParseError", {}, FALSE, {})
    /\ \A w \in DOMAIN pc :
           (pc[w] \in { "querying", "done" } /\ handler[w] = ViewsQuery)
           => /\ user_query[w] # << >>
              /\ (input[w] = << >>) => (user_query[w] = default)
              /\ (input[w] # << >>) => (user_query[w] = input[w])
              /\ (pc[w] = "done")
                     => (outcome[w].engine_query = << user_query[w] >>)

C7_Witness ==
    \E w \in DOMAIN pc :
        /\ DoneWith(w, ViewsQuery)
        /\ input[w] = << >>
        /\ outcome[w].engine_query = << default >>
        /\ outcome[w].engine_status = "ok"

\* C8: double negation: for every tag leaf a, known or unknown,
\* evaluate(Not(Not(a))) is evaluate(a).
C8_DoubleNegation ==
    (eng.stage \in { "parsed", "evaluated", "failed" }
        /\ eng.ast.kind = "Not" /\ eng.ast.child.kind = "Not"
        /\ eng.ast.child.child.kind = "Leaf")
    => /\ eng.stage # "failed"
       /\ (eng.stage = "evaluated")
              => (eng.value = evaluate(eng.ast.child.child, storage).value)

C8_Witness ==
    /\ eng.stage = "evaluated"
    /\ eng.ast = Not(Not(Leaf(TagA)))
    /\ TagA \in DOMAIN storage
    /\ TagB \in DOMAIN storage
    /\ storage[TagA] = { "n1" }
    /\ storage[TagB] = { "n2" }
    /\ eng.value = { "n1" }

\* C9: precedence: "x OR y AND z" parses to Or(x, And(y, z)), the AST of
\* "x OR (y AND z)", and not to the AST of "(x OR y) AND z"; the parse
\* consumes every token.
C9_Precedence ==
    \A x, y, z \in QueryTags :
        (eng.raw = FlatQuery(x, y, z)
            /\ eng.stage \in { "tokenized", "parsed", "evaluated", "failed" })
        => /\ eng.tokens = << TagLiteral(x), TokOr, TagLiteral(y), TokAnd,
                              TagLiteral(z) >>
           /\ eng.stage # "failed"
           /\ (eng.stage \in { "parsed", "evaluated" })
                => /\ eng.ast = Or(Leaf(x), And(Leaf(y), Leaf(z)))
                   /\ eng.ast = parse(tokenize(RightGroupedQuery(x, y, z)).tokens).ast
                   /\ eng.ast # parse(tokenize(LeftGroupedQuery(x, y, z)).tokens).ast
                   /\ eng.pos = Len(eng.tokens) + 1

C9_Witness ==
    /\ eng.stage = "parsed"
    /\ eng.raw = FlatQuery(TagA, TagB, TagC)
    /\ eng.ast = Or(Leaf(TagA), And(Leaf(TagB), Leaf(TagC)))

\* C10: page_for_list_of_ids is called only with a non-empty list of note
\* ids, on every path through page_for_tag and page_for_query.
C10_ListOfIdsNeverEmpty ==
    \A w \in DOMAIN outcome :
        \A i \in 1..Len(outcome[w].listed) : outcome[w].listed[i] # {}

=============================================================================
